---------------------------- MODULE Spec2Model ----------------------------
(***************************************************************************)
(* Model of laredo.py: the row aggregation pass (rows_to_records), the     *)
(* rescrape merge and the top-level control flow of main.                  *)
(*                                                                         *)
(* Texts are sequences of tokens (a token is a character or a word), so    *)
(* that str.strip, int() and strptime are computed rather than assumed.    *)
(* A Python value that may be None, a str or an int is a tagged record.    *)
(***************************************************************************)
EXTENDS Integers, Sequences, FiniteSets, TLC

(***************************************************************************)
(* Bounds of the model.                                                    *)
(***************************************************************************)
\* Rows the results table shows in one pass (len(rows)) is at most MaxRows.
MaxRows == 3
\* len(rescrape_list) is at most MaxRescrape.
MaxRescrape == 2
\* --max-parties ranges over 0..MaxParties.
MaxParties == 2
\* Rows per pass in the runs that rescrape.
MaxRescrapeRows == 2

(***************************************************************************)
(* Python values.                                                          *)
(***************************************************************************)
PyNone == [kind |-> "none", s |-> <<>>, n |-> 0]

PyStr(t) == [kind |-> "str", s |-> t, n |-> 0]

PyInt(k) == [kind |-> "int", s |-> <<>>, n |-> k]

\* bool(v) of a None / str / int value.
Truthy(v) ==
    CASE v.kind = "none" -> FALSE
      [] v.kind = "str" -> v.s # <<>>
      [] OTHER -> v.n # 0

(***************************************************************************)
(* str.strip(): leading and trailing blanks removed.                       *)
(***************************************************************************)
RECURSIVE LStrip(_)
LStrip(t) ==
    IF t # <<>> /\ Head(t) = " " THEN LStrip(Tail(t)) ELSE t

RECURSIVE RStrip(_)
RStrip(t) ==
    IF t # <<>> /\ t[Len(t)] = " " THEN RStrip(SubSeq(t, 1, Len(t) - 1)) ELSE t

Strip(t) == RStrip(LStrip(t))

(***************************************************************************)
(* DOM elements. An element that is absent makes find_element raise.       *)
(***************************************************************************)
NoElem == [present |-> FALSE, text |-> <<>>]

Elem(t) == [present |-> TRUE, text |-> t]

\* A plain <td>: no nested span, no role chip.
Plain(t) == [text |-> t, span |-> NoElem, chip |-> NoElem]

\* A party <td>: the name in a span, the role in a chip.
PartyCell(name, role) ==
    [text |-> name \o <<" ">> \o role, span |-> Elem(name), chip |-> Elem(role)]

\* safe_text(el): el.text.strip().
safe_text(el) == Strip(el.text)

(***************************************************************************)
(* extract_party_and_role                                                  *)
(***************************************************************************)
\* str.upper() on the role words the chips carry.
Upper(w) ==
    CASE w = "grantor" -> "GRANTOR"
      [] w = "Grantor" -> "GRANTOR"
      [] w = "grantee" -> "GRANTEE"
      [] w = "Grantee" -> "GRANTEE"
      [] OTHER -> w

\* re.search(r"\b(GRANTOR|GRANTEE)\b", role_raw, re.IGNORECASE): the first
\* whole word of the chip text that is one of the two roles, upper-cased;
\* "" when there is none.
RoleOf(role_raw) ==
    LET hits == {i \in 1..Len(role_raw) :
                    Upper(role_raw[i]) \in {"GRANTOR", "GRANTEE"}}
    IN  IF hits = {} THEN ""
        ELSE Upper(role_raw[CHOOSE i \in hits : \A j \in hits : i <= j])

extract_party_and_role(td) ==
    LET name == IF td.span.present THEN safe_text(td.span) ELSE safe_text(td)
        role == IF td.chip.present THEN RoleOf(safe_text(td.chip)) ELSE ""
    IN  IF name # <<>> /\ role # ""
        THEN name \o <<" ", "(", role, ")">>
        ELSE name

(***************************************************************************)
(* int(pages): an optional sign followed by decimal digits.                *)
(***************************************************************************)
DigitVal(c) ==
    CASE c = "0" -> 0 [] c = "1" -> 1 [] c = "2" -> 2 [] c = "3" -> 3
      [] c = "4" -> 4 [] c = "5" -> 5 [] c = "6" -> 6 [] c = "7" -> 7
      [] c = "8" -> 8 [] c = "9" -> 9 [] OTHER -> -1

IntBody(t) == IF t # <<>> /\ Head(t) \in {"+", "-"} THEN Tail(t) ELSE t

IsIntText(t) ==
    /\ IntBody(t) # <<>>
    /\ \A i \in 1..Len(IntBody(t)) : DigitVal(IntBody(t)[i]) >= 0

RECURSIVE DigitsValue(_)
DigitsValue(t) ==
    IF t = <<>> THEN 0
    ELSE 10 * DigitsValue(SubSeq(t, 1, Len(t) - 1)) + DigitVal(t[Len(t)])

IntValue(t) ==
    IF Head(t) = "-" THEN 0 - DigitsValue(IntBody(t)) ELSE DigitsValue(IntBody(t))

\* try: rec["Pages"] = int(pages)  except Exception: rec["Pages"] = pages
CoercePages(pages) ==
    IF IsIntText(pages) THEN PyInt(IntValue(pages)) ELSE PyStr(pages)

(***************************************************************************)
(* Calendar arithmetic of datetime.date.                                   *)
(***************************************************************************)
IsLeap(y) == (y % 4 = 0 /\ y % 100 # 0) \/ y % 400 = 0

DaysInMonth(y, m) ==
    CASE m \in {4, 6, 9, 11} -> 30
      [] m = 2 -> IF IsLeap(y) THEN 29 ELSE 28
      [] OTHER -> 31

RECURSIVE DaysBeforeMonth(_, _)
DaysBeforeMonth(y, m) ==
    IF m = 1 THEN 0 ELSE DaysBeforeMonth(y, m - 1) + DaysInMonth(y, m - 1)

\* date.toordinal(): days since 0001-01-01, that day being 1. Subtracting
\* a timedelta and comparing two dates are arithmetic on this number.
ToOrdinal(dt) ==
    365 * (dt.y - 1) + ((dt.y - 1) \div 4) - ((dt.y - 1) \div 100)
       + ((dt.y - 1) \div 400) + DaysBeforeMonth(dt.y, dt.m) + dt.d

(***************************************************************************)
(* parse_date_mmmd: strptime with "%b %d, %Y, %I:%M %p", then "%b %d, %Y". *)
(***************************************************************************)
MonthAbbr ==
    <<"Jan", "Feb", "Mar", "Apr", "May", "Jun",
      "Jul", "Aug", "Sep", "Oct", "Nov", "Dec">>

\* %b: the month whose abbreviation the token is, 0 when it is none.
MonthNum(tok) ==
    IF \E m \in 1..12 : MonthAbbr[m] = tok
    THEN CHOOSE m \in 1..12 : MonthAbbr[m] = tok
    ELSE 0

\* The number in S whose decimal text the token is, -1 when there is none.
NumIn(tok, S) ==
    IF \E k \in S : ToString(k) = tok
    THEN CHOOSE k \in S : ToString(k) = tok
    ELSE -1

\* %Y, over the years the date cells of the model mention.
Years == 2020..2030

\* The "%b %d, %Y" prefix of both formats: six tokens.
DatePartOk(s) ==
    /\ Len(s) >= 6
    /\ MonthNum(s[1]) > 0
    /\ s[2] = " "
    /\ NumIn(s[3], 1..31) >= 1
    /\ s[4] = ","
    /\ s[5] = " "
    /\ NumIn(s[6], Years) >= 1
    /\ NumIn(s[3], 1..31) <= DaysInMonth(NumIn(s[6], Years), MonthNum(s[1]))

\* The ", %I:%M %p" suffix of the first format: seven tokens.
TimePartOk(s) ==
    /\ Len(s) = 13
    /\ s[7] = ","
    /\ s[8] = " "
    /\ NumIn(s[9], 1..12) >= 1
    /\ s[10] = ":"
    /\ NumIn(s[11], 0..59) >= 0
    /\ s[12] = " "
    /\ s[13] \in {"AM", "PM", "am", "pm"}

DateOf(s) ==
    [y |-> NumIn(s[6], Years), m |-> MonthNum(s[1]), d |-> NumIn(s[3], 1..31)]

NoDate == [ok |-> FALSE, date |-> [y |-> 1, m |-> 1, d |-> 1]]

\* The first component of parse_date_mmmd's result: the parsed datetime
\* (its date part, which is all the caller reads) or None.
parse_date_mmmd(raw) ==
    LET s == Strip(raw)
    IN  IF s = <<>> THEN NoDate
        ELSE IF DatePartOk(s) /\ TimePartOk(s) THEN [ok |-> TRUE, date |-> DateOf(s)]
        ELSE IF DatePartOk(s) /\ Len(s) = 6 THEN [ok |-> TRUE, date |-> DateOf(s)]
        ELSE NoDate

(***************************************************************************)
(* Python dict / OrderedDict: a sequence of <<key, value>> pairs in        *)
(* insertion order; assigning an existing key keeps its position.          *)
(***************************************************************************)
DictHas(d, k) == \E i \in 1..Len(d) : d[i][1] = k

DictGet(d, k) == d[CHOOSE i \in 1..Len(d) : d[i][1] = k][2]

\* DictPut that appends even when the key is there.
DictPutAlwaysAppend(d, k, v) == Append(d, <<k, v>>)

DictPut(d, k, v) ==
    IF DictHas(d, k)
    THEN [i \in 1..Len(d) |-> IF d[i][1] = k THEN <<k, v>> ELSE d[i]]
    ELSE Append(d, <<k, v>>)

DictValues(d) == [i \in 1..Len(d) |-> d[i][2]]

DictKeys(d) == [i \in 1..Len(d) |-> d[i][1]]

\* seq[:n] for n >= 0 and, as Python slices, for n < 0.
SliceTo(seq, n) ==
    IF n >= 0
    THEN SubSeq(seq, 1, IF n < Len(seq) THEN n ELSE Len(seq))
    ELSE SubSeq(seq, 1, IF Len(seq) + n > 0 THEN Len(seq) + n ELSE 0)

SeqHas(seq, x) == \E i \in 1..Len(seq) : seq[i] = x

(***************************************************************************)
(* rows_to_records: the body of the row loop.                              *)
(*                                                                         *)
(* A row is [stale, tds]: tds the <td> cells (tds[k + 1] here is tds[k]    *)
(* there), stale a row whose find_elements raises. A record is a function  *)
(* from its keys to values: "Doc Number" and "PartyK" hold texts, "id" a   *)
(* string, every other key a Python value.                                 *)
(***************************************************************************)
\* The column count the loop requires: len(tds) < 14 skips the row.
MinCells == 14

\* Lines 288-305: the locals read off the cells of one row.
RowLocals(tds) ==
    [doc_number        |-> safe_text(tds[4]),
     party_text        |-> extract_party_and_role(tds[5]),
     addl_party_text   |-> extract_party_and_role(tds[13]),
     book_page         |-> IF safe_text(tds[6]) # <<>>
                           THEN PyStr(safe_text(tds[6])) ELSE PyNone,
     doc_date_raw      |-> safe_text(tds[7]),
     recorded_date_raw |-> safe_text(tds[8]),
     doc_type          |-> safe_text(tds[9]),
     assoc_doc         |-> safe_text(tds[10]),
     legal_summary     |-> safe_text(tds[11]),
     consideration     |-> safe_text(tds[12]),
     pages             |-> safe_text(tds[14])]

\* Lines 277-279: min_doc_date, None unless days_back > 0.
MinDocDate(days_back, now) ==
    IF days_back # 0 /\ days_back > 0
    THEN [set |-> TRUE, ord |-> ToOrdinal(now) - days_back]
    ELSE [set |-> FALSE, ord |-> 0]

\* TooOld with <= for <: the day of the cutoff is dropped too.
TooOldInclusive(min_date, doc_date_raw) ==
    LET dt_doc == parse_date_mmmd(doc_date_raw)
    IN  min_date.set /\ dt_doc.ok /\ ToOrdinal(dt_doc.date) <= min_date.ord

\* Lines 307-309: the row is dropped by the date cutoff.
TooOld(min_date, doc_date_raw) ==
    LET dt_doc == parse_date_mmmd(doc_date_raw)
    IN  min_date.set /\ dt_doc.ok /\ ToOrdinal(dt_doc.date) < min_date.ord

\* Lines 283-309: the row reaches the aggregation (line 311).
Accepted(row, min_date) ==
    /\ ~row.stale
    /\ Len(row.tds) >= MinCells
    /\ safe_text(row.tds[4]) # <<>>
    /\ ~TooOld(min_date, safe_text(row.tds[7]))

\* Lines 313-328: the record of a doc number's first accepted row.
NewRecord(county_slug, count, max_parties, L) ==
    ("id" :> (county_slug \o "-" \o ToString(count)))
    @@ ("Doc Number" :> L.doc_number)
    @@ [k \in {"Party" \o ToString(i) : i \in 1..max_parties} |-> <<>>]
    @@ ("Book & Page" :> L.book_page)
    @@ ("Doc Date" :> PyStr(L.doc_date_raw))
    @@ ("Recorded Date" :> PyStr(L.recorded_date_raw))
    @@ ("Doc Type" :> PyStr(L.doc_type))
    @@ ("Assoc Doc" :> PyStr(L.assoc_doc))
    @@ ("Legal Summary" :> PyStr(L.legal_summary))
    @@ ("Consideration" :> PyStr(L.consideration))
    @@ ("Pages" :> CoercePages(L.pages))

\* FillIfEmpty without the test of the stored value: the last row wins.
FillIfSupplied(rec, key, val) ==
    IF Truthy(val) THEN [rec EXCEPT ![key] = val] ELSE rec

\* if not rec.get(key) and val: rec[key] = val
FillIfEmpty(rec, key, val) ==
    IF ~Truthy(rec[key]) /\ Truthy(val) THEN [rec EXCEPT ![key] = val] ELSE rec

\* Lines 344-348.
FillPages(rec, pages) ==
    IF (rec["Pages"].kind = "str" \/ ~Truthy(rec["Pages"])) /\ pages # <<>>
    THEN [rec EXCEPT !["Pages"] = CoercePages(pages)]
    ELSE rec

\* Lines 332-348: the fields a row fills in the record of its doc number.
\* "Consideration" is not among them.
MergeRow(rec, L) ==
    LET r1 == FillIfEmpty(rec, "Book & Page", L.book_page)
        r2 == FillIfEmpty(r1, "Doc Date", PyStr(L.doc_date_raw))
        r3 == FillIfEmpty(r2, "Recorded Date", PyStr(L.recorded_date_raw))
        r4 == FillIfEmpty(r3, "Doc Type", PyStr(L.doc_type))
        r5 == FillIfEmpty(r4, "Assoc Doc", PyStr(L.assoc_doc))
        r6 == FillIfEmpty(r5, "Legal Summary", PyStr(L.legal_summary))
    IN  FillPages(r6, L.pages)

\* AddParty without the test for a string already listed.
AddPartyNoDedup(parties, doc_number, p) ==
    LET p_norm == Strip(p)
        have == IF DictHas(parties, doc_number)
                THEN DictGet(parties, doc_number) ELSE <<>>
    IN  IF p_norm # <<>>
        THEN DictPut(parties, doc_number, Append(have, p_norm))
        ELSE parties

\* Lines 351-353 for one p: per_doc_parties[doc_number] gains p.strip()
\* unless that is empty or already in the list.
AddParty(parties, doc_number, p) ==
    LET p_norm == Strip(p)
        have == IF DictHas(parties, doc_number)
                THEN DictGet(parties, doc_number) ELSE <<>>
    IN  IF p_norm # <<>> /\ ~SeqHas(have, p_norm)
        THEN DictPut(parties, doc_number, Append(have, p_norm))
        ELSE parties

\* ApplyRow with count advanced by every accepted row.
ApplyRowCountEveryRow(agg, L, county_slug, max_parties) ==
    LET fresh == ~DictHas(agg.bucket, L.doc_number)
        count1 == agg.count + 1
        bucket1 == IF fresh
                   THEN DictPut(agg.bucket, L.doc_number,
                                NewRecord(county_slug, count1, max_parties, L))
                   ELSE agg.bucket
        bucket2 == DictPut(bucket1, L.doc_number,
                           MergeRow(DictGet(bucket1, L.doc_number), L))
        parties1 == AddParty(agg.per_doc_parties, L.doc_number, L.party_text)
        parties2 == AddParty(parties1, L.doc_number, L.addl_party_text)
    IN  [bucket |-> bucket2, count |-> count1, per_doc_parties |-> parties2]

\* Lines 311-353: one accepted row applied to bucket, count and
\* per_doc_parties.
ApplyRow(agg, L, county_slug, max_parties) ==
    LET fresh == ~DictHas(agg.bucket, L.doc_number)
        count1 == IF fresh THEN agg.count + 1 ELSE agg.count
        bucket1 == IF fresh
                   THEN DictPut(agg.bucket, L.doc_number,
                                NewRecord(county_slug, count1, max_parties, L))
                   ELSE agg.bucket
        bucket2 == DictPut(bucket1, L.doc_number,
                           MergeRow(DictGet(bucket1, L.doc_number), L))
        parties1 == AddParty(agg.per_doc_parties, L.doc_number, L.party_text)
        parties2 == AddParty(parties1, L.doc_number, L.addl_party_text)
    IN  [bucket |-> bucket2, count |-> count1, per_doc_parties |-> parties2]

\* Lines 282-356: one iteration of the row loop.
ProcessRow(agg, row, min_date, county_slug, max_parties) ==
    IF Accepted(row, min_date)
    THEN ApplyRow(agg, RowLocals(row.tds), county_slug, max_parties)
    ELSE agg

\* Lines 362-363: rec["Party1"], rec["Party2"], ... from parties[:max_parties].
FillParties(rec, parties, max_parties) ==
    LET cut == SliceTo(parties, max_parties)
        keys == {"Party" \o ToString(i) : i \in 1..Len(cut)}
    IN  [k \in DOMAIN rec \cup keys |->
            IF k \in keys
            THEN cut[CHOOSE i \in 1..Len(cut) : k = "Party" \o ToString(i)]
            ELSE rec[k]]

\* Lines 358-365: the party slots filled, then list(bucket.values()).
Finalize(agg, max_parties) ==
    [i \in 1..Len(agg.bucket) |->
        LET doc == agg.bucket[i][1]
            rec == agg.bucket[i][2]
        IN  IF DictHas(agg.per_doc_parties, doc)
            THEN FillParties(rec, DictGet(agg.per_doc_parties, doc), max_parties)
            ELSE rec]

(***************************************************************************)
(* main, lines 452-455: the rescrape merge.                                *)
(***************************************************************************)
RECURSIVE PutAll(_, _)
PutAll(by_doc, recs) ==
    IF recs = <<>> THEN by_doc
    ELSE PutAll(DictPut(by_doc, Head(recs)["Doc Number"], Head(recs)), Tail(recs))

\* MergeRescrape with the two lists swapped: the base record wins.
MergeRescrapeBaseWins(base, incoming) ==
    DictValues(PutAll(PutAll(<<>>, incoming), base))

MergeRescrape(base, incoming) == DictValues(PutAll(PutAll(<<>>, base), incoming))

(***************************************************************************)
(* The inputs: what the results table can show. Each run reads one of      *)
(* five tables; a table is the set of rows its passes may find, in any     *)
(* order and with repeats, at most MaxRows per pass.                       *)
(***************************************************************************)
\* The day before dt, by the calendar (not by ordinals).
PrevDay(dt) ==
    IF dt.d > 1 THEN [dt EXCEPT !.d = dt.d - 1]
    ELSE IF dt.m > 1
         THEN [y |-> dt.y, m |-> dt.m - 1, d |-> DaysInMonth(dt.y, dt.m - 1)]
         ELSE [y |-> dt.y - 1, m |-> 12, d |-> 31]

RECURSIVE DaysAgo(_, _)
DaysAgo(dt, k) == IF k = 0 THEN dt ELSE DaysAgo(PrevDay(dt), k - 1)

\* A date as the table prints it, e.g. Oct 31, 2026.
DateText(dt) ==
    <<MonthAbbr[dt.m], " ", ToString(dt.d), ",", " ", ToString(dt.y)>>

\* The same with a time of day, e.g. Oct 31, 2026, 3:15 PM.
DateTimeText(dt) == DateText(dt) \o <<",", " ", "3", ":", "15", " ", "PM">>

\* The day the runs take place.
Today1 == [y |-> 2026, m |-> 11, d |-> 2]

\* The day after a leap day.
Today2 == [y |-> 2024, m |-> 3, d |-> 1]

\* The doc numbers of the tables.
DocD1 == <<"D", "1">>

DocD2 == <<"D", "2">>

DocD3 == <<"D", "3">>

\* A row of all-empty cells for one doc number; the tables vary it.
BlankRow(doc) ==
    [doc |-> doc, party |-> Plain(<<>>), addl |-> Plain(<<>>), book |-> <<>>,
     ddate |-> <<>>, rdate |-> <<>>, dtype |-> <<>>, assoc |-> <<>>,
     legal |-> <<>>, consid |-> <<>>, pages |-> <<>>]

\* The <tr> of a row description: fourteen cells, columns 3..13 in use.
Tr(p) ==
    [stale |-> FALSE,
     tds |-> <<Plain(<<>>), Plain(<<>>), Plain(<<>>), Plain(p.doc), p.party,
               Plain(p.book), Plain(p.ddate), Plain(p.rdate), Plain(p.dtype),
               Plain(p.assoc), Plain(p.legal), Plain(p.consid), p.addl,
               Plain(p.pages)>>]

\* A row with one cell too few, and a row whose cells cannot be read.
ShortTr(p) == [stale |-> FALSE, tds |-> SubSeq(Tr(p).tds, 1, MinCells - 1)]

StaleTr == [stale |-> TRUE, tds |-> <<>>]

Columns == {"book", "ddate", "rdate", "dtype", "assoc", "legal", "consid"}

\* Two sets of cell texts; the second pads some cells with blanks.
CellText(tag, col, now) ==
    IF tag = "A"
    THEN CASE col = "book" -> <<"1", "/", "7">>
           [] col = "ddate" -> DateText(now)
           [] col = "rdate" -> DateTimeText(now)
           [] col = "dtype" -> <<"W", "D">>
           [] col = "assoc" -> <<"9">>
           [] col = "legal" -> <<"L", "O", "T", " ", "1">>
           [] OTHER -> <<"$", "5">>
    ELSE CASE col = "book" -> <<" ", "2", "/", "8">>
           [] col = "ddate" -> DateTimeText(PrevDay(now))
           [] col = "rdate" -> DateText(now)
           [] col = "dtype" -> <<"D", "T", " ">>
           [] col = "assoc" -> <<"8">>
           [] col = "legal" -> <<"L", "O", "T", " ", "2">>
           [] OTHER -> <<"$", "9">>

\* The row of doc whose columns in `filled` carry the texts of `tag`.
FieldRow(doc, tag, filled, now) ==
    [c \in DOMAIN BlankRow(doc) |->
        IF c \in filled THEN CellText(tag, c, now) ELSE BlankRow(doc)[c]]

\* Table "fields": one document whose rows fill no column, one column or
\* all of them, in two wordings; and a second document.
FieldsTable(now) ==
    {Tr(FieldRow(DocD1, "A", f, now)) : f \in {{c} : c \in Columns} \cup {Columns, {}}}
    \cup {Tr(FieldRow(DocD1, "B", f, now)) : f \in {{"consid"}, Columns}}
    \cup {Tr(FieldRow(DocD2, "A", Columns, now))}

PartyCells ==
    {Plain(<<>>), PartyCell(<<"A">>, <<"GRANTOR">>),
     PartyCell(<<"B", " ">>, <<"x", " ", "grantee">>)}

AddlCells == {Plain(<<>>), Plain(<<" ", "A", " ">>), PartyCell(<<"C">>, <<"other">>)}

\* Table "parties": party and additional-party cells with and without a
\* role chip, repeated across rows and cells.
PartiesTable ==
    {Tr([BlankRow(DocD1) EXCEPT !.party = p, !.addl = a]) :
        p \in PartyCells, a \in AddlCells}
    \cup {Tr([BlankRow(DocD2) EXCEPT !.party = PartyCell(<<"A">>, <<"GRANTOR">>)])}

\* How many days before today the dated rows of table "dates" are.
Ages == 1..3

\* Doc Date cells: k days old, one of them with a time of day; a day that
\* does not exist; and empty.
DateCells(now) ==
    {DateText(DaysAgo(now, k)) : k \in Ages}
    \cup {DateTimeText(DaysAgo(now, 2))}
    \cup {<<"Feb", " ", "30", ",", " ", "2026">>, <<>>}

\* Table "dates": dated rows of one document, an old row of another, and
\* the rows the loop skips before it reads a date.
DatesTable(now) ==
    {Tr([BlankRow(DocD1) EXCEPT !.ddate = t, !.dtype = <<"W", "D">>,
                                !.party = Plain(<<"A">>)]) : t \in DateCells(now)}
    \cup {Tr([BlankRow(DocD2) EXCEPT !.ddate = DateText(DaysAgo(now, 3)),
                                     !.party = Plain(<<"Z">>)])}
    \cup {ShortTr(BlankRow(DocD1)), Tr(BlankRow(<<" ">>)), StaleTr}

PageCells ==
    {<<>>, <<"0">>, <<"7">>, <<"1", "2">>, <<"-", "3">>, <<"x">>, <<"n", "/", "a">>}

\* Table "pages": page counts that are integers, zero, text and empty.
PagesTable ==
    {Tr([BlankRow(DocD1) EXCEPT !.pages = t]) : t \in PageCells}
    \cup {Tr([BlankRow(DocD2) EXCEPT !.pages = t]) : t \in {<<"0">>, <<"5">>}}

\* Table "rescrape": three documents, one of them in two wordings, for the
\* runs that rescrape.
RescrapeTable(now) ==
    {Tr(FieldRow(DocD1, tag, Columns, now)) : tag \in {"A", "B"}}
    \cup {Tr(FieldRow(d, "A", Columns, now)) : d \in {DocD2, DocD3}}

\* The tables as printed on each of the two days.
FieldsRows == FieldsTable(Today1)

DatesRows1 == DatesTable(Today1)

DatesRows2 == DatesTable(Today2)

RescrapeRows == RescrapeTable(Today1)

TableRows(t, now) ==
    CASE t = "fields" -> FieldsRows
      [] t = "parties" -> PartiesTable
      [] t = "dates" -> IF now = Today1 THEN DatesRows1 ELSE DatesRows2
      [] t = "pages" -> PagesTable
      [] OTHER -> RescrapeRows

(***************************************************************************)
(* The state of one run of main.                                           *)
(***************************************************************************)
VARIABLES
    args,             \* the parsed command line (get_args)
    table,            \* which table the site shows to this run
    today,            \* datetime.utcnow().date()
    pc,               \* where main is
    driver,           \* "None", "open" or "quit"
    exc,              \* an exception is propagating
    passNo,           \* 0 in the first pass, k in the k-th rescrape pass
    scanned,          \* rows_to_records: the rows iterated so far
    bucket,           \* rows_to_records: bucket
    per_doc_parties,  \* rows_to_records: per_doc_parties
    count,            \* rows_to_records: count
    min_doc_date,     \* rows_to_records: min_doc_date
    ret,              \* rows_to_records: the list it returns
    records,          \* main: records
    more,             \* main: more
    flow,             \* main: flow
    flowFile,         \* laredo-flow-logs.json
    outFiles,         \* the files save_json_csv has written
    effects,          \* log lines, file writes and sys.exit calls, in order
    timedOut,         \* the hard-timeout check of the finally block fired
    exitCode,         \* the process's exit status, -1 while it runs
    lastSeen          \* the records of the latest pass that held each doc

vars ==
    <<args, table, today, pc, driver, exc, passNo, scanned, bucket,
      per_doc_parties, count, min_doc_date, ret, records, more, flow,
      flowFile, outFiles, effects, timedOut, exitCode, lastSeen>>

passVars == <<scanned, bucket, per_doc_parties, count, min_doc_date, ret>>

Tables == {"fields", "parties", "dates", "pages", "rescrape"}

\* --county-slug, left at its default.
CountySlug == "st-charles-county"

\* The settings of the runs that the passes read: args.max_parties,
\* args.days_back, the parsed args.rescrape_indices, and the day. Each
\* table comes with the settings its rows are about; the others stay at
\* one value. (--skip-csv and --hard-timeout are drawn where main reads
\* them, in Save and Finally.)
Settings(t) ==
    CASE t = "parties" ->
           {[max_parties |-> n, days_back |-> 2, rescrape_list |-> <<>>,
             now |-> Today1] : n \in 0..MaxParties}
      [] t = "dates" ->
           {[max_parties |-> MaxParties, days_back |-> n, rescrape_list |-> <<>>,
             now |-> Today1] : n \in {-1, 0, 1, 2}}
           \cup {[max_parties |-> MaxParties, days_back |-> 2,
                  rescrape_list |-> <<>>, now |-> Today2]}
      [] t = "rescrape" ->
           {[max_parties |-> MaxParties, days_back |-> 2,
             rescrape_list |-> [i \in 1..n |-> i], now |-> Today1] :
                n \in 0..MaxRescrape}
      [] OTHER ->
           {[max_parties |-> MaxParties, days_back |-> 2, rescrape_list |-> <<>>,
             now |-> Today1]}

\* len(rows) of a pass: the runs that rescrape read shorter tables.
RowCap(t) == IF t = "rescrape" THEN MaxRescrapeRows ELSE MaxRows

\* flow before line 416 builds it.
NoFlow == [started |-> FALSE, steps |-> <<>>, finished_ok |-> "unset"]

\* The state at line 415: the arguments parsed, the parameters logged.
Init ==
    /\ table \in Tables
    /\ \E st \in Settings(table) :
          /\ args = [county_slug |-> CountySlug, max_parties |-> st.max_parties,
                     days_back |-> st.days_back,
                     rescrape_list |-> st.rescrape_list]
          /\ today = st.now
    /\ pc = "ensure_out"
    /\ driver = "None"
    /\ exc = FALSE
    /\ passNo = 0
    /\ scanned = <<>>
    /\ bucket = <<>>
    /\ per_doc_parties = <<>>
    /\ count = 0
    /\ min_doc_date = [set |-> FALSE, ord |-> 0]
    /\ ret = <<>>
    /\ records = <<>>
    /\ more = <<>>
    /\ flow = NoFlow
    /\ flowFile = [written |-> FALSE, data |-> NoFlow]
    /\ outFiles = {}
    /\ effects = <<"log">>
    /\ timedOut = FALSE
    /\ exitCode = -1
    /\ lastSeen = {}

Range(seq) == {seq[i] : i \in 1..Len(seq)}

\* The records `result` of a pass recorded as the latest of their docs.
Seen(seen, result) ==
    {r \in seen : \A i \in 1..Len(result) :
                     result[i]["Doc Number"] # r["Doc Number"]}
    \cup Range(result)

(***************************************************************************)
(* main, one action per step.                                              *)
(***************************************************************************)
\* Lines 415-424: ensure_out, then the flow dict. os.makedirs may raise;
\* nothing catches it here.
EnsureOut ==
    /\ pc = "ensure_out"
    /\ \/ /\ pc' = "build_driver"
          /\ flow' = [NoFlow EXCEPT !.started = TRUE]
          /\ UNCHANGED exitCode
       \/ /\ pc' = "exit"
          /\ exitCode' = 1
          /\ UNCHANGED flow
    /\ UNCHANGED <<args, table, today, driver, exc, passNo, passVars, records,
                   more, flowFile, outFiles, effects, timedOut, lastSeen>>

\* Line 426: build_driver returns a driver or raises.
BuildDriver ==
    /\ pc = "build_driver"
    /\ \/ /\ driver' = "open"
          /\ pc' = "navigate"
          /\ UNCHANGED exc
       \/ /\ exc' = TRUE
          /\ pc' = "except"
          /\ UNCHANGED driver
    /\ UNCHANGED <<args, table, today, passNo, passVars, records, more, flow,
                   flowFile, outFiles, effects, timedOut, exitCode, lastSeen>>

\* Lines 427-428: maybe_login logs a line; navigate_to_results returns, or
\* dumps the page (ending in a log line) and raises.
Navigate ==
    /\ pc = "navigate"
    /\ \/ /\ pc' = "pass_begin"
          /\ effects' = effects \o <<"log">>
          /\ UNCHANGED exc
       \/ /\ exc' = TRUE
          /\ pc' = "except"
          /\ effects' = effects \o <<"log", "log", "dump_page", "log">>
    /\ UNCHANGED <<args, table, today, driver, passNo, passVars, records, more,
                   flow, flowFile, outFiles, timedOut, exitCode, lastSeen>>

\* Lines 430 / 443 and 265-281: the begin event, then rows_to_records up to
\* its loop; finding the rows may raise.
BeginPass ==
    /\ pc = "pass_begin"
    /\ flow' = [flow EXCEPT !.steps =
                   Append(@, IF passNo = 0 THEN "first_pass_begin"
                             ELSE "rescrape_begin")]
    /\ \/ /\ pc' = "scan"
          /\ scanned' = <<>>
          /\ bucket' = <<>>
          /\ per_doc_parties' = <<>>
          /\ count' = 0
          /\ min_doc_date' = MinDocDate(args.days_back, today)
          /\ ret' = <<>>
          /\ UNCHANGED exc
       \/ /\ exc' = TRUE
          /\ pc' = "except"
          /\ UNCHANGED passVars
    /\ UNCHANGED <<args, table, today, driver, passNo, records, more, flowFile,
                   outFiles, effects, timedOut, exitCode, lastSeen>>

\* Lines 282-356: the loop takes the next row of the table; a row that
\* cannot be read is logged and skipped.
ScanRow ==
    /\ pc = "scan"
    /\ Len(scanned) < RowCap(table)
    /\ \E row \in TableRows(table, today) :
          LET agg == ProcessRow([bucket |-> bucket, count |-> count,
                                 per_doc_parties |-> per_doc_parties],
                                row, min_doc_date, args.county_slug,
                                args.max_parties)
          IN  /\ scanned' = Append(scanned, row)
              /\ bucket' = agg.bucket
              /\ count' = agg.count
              /\ per_doc_parties' = agg.per_doc_parties
              /\ effects' = IF row.stale THEN effects \o <<"log">> ELSE effects
    /\ UNCHANGED <<args, table, today, pc, driver, exc, passNo, min_doc_date,
                   ret, records, more, flow, flowFile, outFiles, timedOut,
                   exitCode, lastSeen>>

\* Lines 358-365: the rows are exhausted; the party slots are filled and
\* the list of records is built.
EndPass ==
    /\ pc = "scan"
    /\ ret' = Finalize([bucket |-> bucket, count |-> count,
                        per_doc_parties |-> per_doc_parties], args.max_parties)
    /\ pc' = "return"
    /\ UNCHANGED <<args, table, today, driver, exc, passNo, scanned, bucket,
                   per_doc_parties, count, min_doc_date, records, more, flow,
                   flowFile, outFiles, effects, timedOut, exitCode, lastSeen>>

\* Where main goes after a pass is stored or merged.
AfterPass == IF passNo < Len(args.rescrape_list) THEN "pass_begin" ELSE "save"

\* Lines 431-441 and 444: rows_to_records returns, to records in the first
\* pass and to more in a rescrape pass; its locals are gone.
Return ==
    /\ pc = "return"
    /\ scanned' = <<>>
    /\ bucket' = <<>>
    /\ per_doc_parties' = <<>>
    /\ count' = 0
    /\ ret' = <<>>
    /\ IF passNo = 0
       THEN /\ records' = ret
            /\ lastSeen' = Seen(lastSeen, ret)
            /\ flow' = [flow EXCEPT !.steps = Append(@, "first_pass_records")]
            /\ passNo' = IF AfterPass = "pass_begin" THEN 1 ELSE 0
            /\ pc' = AfterPass
            /\ UNCHANGED more
       ELSE /\ more' = ret
            /\ pc' = "merge"
            /\ UNCHANGED <<records, lastSeen, flow, passNo>>
    /\ UNCHANGED <<args, table, today, driver, exc, min_doc_date, flowFile,
                   outFiles, effects, timedOut, exitCode>>

\* Lines 452-456: more merged into records by doc number. (more is not
\* read again before the next pass assigns it: it is emptied here.)
Merge ==
    /\ pc = "merge"
    /\ records' = MergeRescrape(records, more)
    /\ lastSeen' = Seen(lastSeen, more)
    /\ more' = <<>>
    /\ flow' = [flow EXCEPT !.steps = Append(@, "rescrape_records")]
    /\ passNo' = IF AfterPass = "pass_begin" THEN passNo + 1 ELSE passNo
    /\ pc' = AfterPass
    /\ UNCHANGED <<args, table, today, driver, exc, passVars, flowFile,
                   outFiles, effects, timedOut, exitCode>>

\* Lines 458-462: save_json_csv writes the JSON file, then the CSV file
\* unless --skip-csv, and logs; either write may raise.
Save ==
    /\ pc = "save"
    /\ \/ \E skip_csv \in BOOLEAN :
             /\ outFiles' = IF skip_csv THEN {"json"} ELSE {"json", "csv"}
             /\ effects' = effects \o (IF skip_csv THEN <<"write_json", "log">>
                                       ELSE <<"write_json", "write_csv", "log">>)
             /\ flow' = [flow EXCEPT !.finished_ok = "true"]
             /\ pc' = "finally"
             /\ UNCHANGED exc
       \/ /\ exc' = TRUE
          /\ pc' = "except"
          /\ UNCHANGED <<outFiles, effects, flow>>
       \/ /\ outFiles' = {"json"}
          /\ effects' = effects \o <<"write_json">>
          /\ exc' = TRUE
          /\ pc' = "except"
          /\ UNCHANGED flow
    /\ UNCHANGED <<args, table, today, driver, passNo, passVars, records, more,
                   flowFile, timedOut, exitCode, lastSeen>>

\* Lines 464-470: the FATAL line, the page dump when there is a driver, the
\* failure recorded in flow; the exception is raised again.
Except ==
    /\ pc = "except"
    /\ effects' = effects \o (IF driver = "open"
                              THEN <<"log", "dump_page", "log">> ELSE <<"log">>)
    /\ flow' = [flow EXCEPT !.finished_ok = "false"]
    /\ pc' = "finally"
    /\ UNCHANGED <<args, table, today, driver, exc, passNo, passVars, records,
                   more, flowFile, outFiles, timedOut, exitCode, lastSeen>>

\* --hard-timeout: off, or a minute.
HardTimeouts == {0, 60}

\* time.time() - start_time as the finally block can read it.
Elapsed == {1, 61}

\* Lines 47-52: the effects of write_flow_log: the file opened and written,
\* or, when that raises, a line logged after the attempt.
WriteFlowLog(wrote) ==
    IF wrote THEN <<"write_flow_log">> ELSE <<"write_flow_log", "log">>

\* Lines 479-483: the effects of the hard-timeout check.
HardTimeoutCheck(hard_timeout, t) ==
    IF hard_timeout # 0 /\ hard_timeout > 0 /\ t > hard_timeout
    THEN <<"log", "sys.exit">> ELSE <<>>

\* FinallyEffects with the hard-timeout check ahead of write_flow_log.
FinallyEffectsCheckFirst(wrote, hard_timeout, t) ==
    HardTimeoutCheck(hard_timeout, t) \o WriteFlowLog(wrote)

\* Lines 471-483, in the order of the code: driver.quit, write_flow_log,
\* the hard-timeout check.
FinallyEffects(wrote, hard_timeout, t) ==
    WriteFlowLog(wrote) \o HardTimeoutCheck(hard_timeout, t)

Finally ==
    /\ pc = "finally"
    /\ driver' = IF driver = "open" THEN "quit" ELSE driver
    /\ \E wrote \in BOOLEAN, hard_timeout \in HardTimeouts, t \in Elapsed :
          /\ flowFile' = IF wrote THEN [written |-> TRUE, data |-> flow]
                         ELSE flowFile
          /\ effects' = effects \o FinallyEffects(wrote, hard_timeout, t)
          /\ timedOut' = (HardTimeoutCheck(hard_timeout, t) # <<>>)
          /\ exitCode' = IF HardTimeoutCheck(hard_timeout, t) # <<>> THEN 124
                         ELSE IF exc THEN 1 ELSE 0
    /\ pc' = "exit"
    /\ UNCHANGED <<args, table, today, exc, passNo, passVars, records, more,
                   flow, outFiles, lastSeen>>

Next ==
    \/ EnsureOut
    \/ BuildDriver
    \/ Navigate
    \/ BeginPass
    \/ ScanRow
    \/ EndPass
    \/ Return
    \/ Merge
    \/ Save
    \/ Except
    \/ Finally

Spec == Init /\ [][Next]_vars

(***************************************************************************)
(* Properties. What a pass should return is stated here from the rows it   *)
(* scanned, without the loop's bookkeeping.                                *)
(***************************************************************************)
\* The accepted rows among `rows`, as the locals read off each, in order.
RECURSIVE AcceptedLocals(_, _)
AcceptedLocals(rows, min_date) ==
    IF rows = <<>> THEN <<>>
    ELSE LET rest == AcceptedLocals(SubSeq(rows, 1, Len(rows) - 1), min_date)
             row == rows[Len(rows)]
         IN  IF Accepted(row, min_date)
             THEN Append(rest, RowLocals(row.tds)) ELSE rest

\* seq without the repeats of an element after its first occurrence.
RECURSIVE Distinct(_)
Distinct(seq) ==
    IF seq = <<>> THEN <<>>
    ELSE LET rest == Distinct(SubSeq(seq, 1, Len(seq) - 1))
             x == seq[Len(seq)]
         IN  IF \E i \in 1..Len(rest) : rest[i] = x THEN rest ELSE Append(rest, x)

RowsOfDoc(locals, doc) == SelectSeq(locals, LAMBDA L : L.doc_number = doc)

NoTwoShare(recs, key) ==
    \A i, j \in 1..Len(recs) : i # j => recs[i][key] # recs[j][key]

NonPartyFields ==
    {"Book & Page", "Doc Date", "Recorded Date", "Doc Type", "Assoc Doc",
     "Legal Summary", "Consideration"}

\* The value a row supplies for a non-party field.
Supplied(L, f) ==
    CASE f = "Book & Page" -> L.book_page
      [] f = "Doc Date" -> PyStr(L.doc_date_raw)
      [] f = "Recorded Date" -> PyStr(L.recorded_date_raw)
      [] f = "Doc Type" -> PyStr(L.doc_type)
      [] f = "Assoc Doc" -> PyStr(L.assoc_doc)
      [] f = "Legal Summary" -> PyStr(L.legal_summary)
      [] OTHER -> PyStr(L.consideration)

\* C1: no two records of a pass's result share a "Doc Number", and neither
\* do two records of the accumulated list, before and after every merge.
C1_UniqueDocNumbers ==
    /\ NoTwoShare(ret, "Doc Number")
    /\ NoTwoShare(more, "Doc Number")
    /\ NoTwoShare(records, "Doc Number")
    /\ NoTwoShare(DictValues(bucket), "Doc Number")

\* A second rescrape pass has collapsed two rows of one document into one
\* record, while the accumulated list holds three documents after a merge.
C1_Witness ==
    /\ pc = "return"
    /\ passNo = 2
    /\ Len(records) = 3
    /\ Len(scanned) = 2
    /\ Len(ret) = 1

\* C2: in a pass, a non-party field of a record that holds a non-empty
\* value keeps it through every later row, and into the returned list.
C2_FilledFieldKept ==
    [][\A i \in 1..Len(bucket) : \A f \in NonPartyFields :
          (pc = "scan" /\ Truthy(bucket[i][2][f]))
          => /\ pc' = "scan" => /\ Len(bucket') >= i
                                /\ bucket'[i][2][f] = bucket[i][2][f]
             /\ pc' = "return" => /\ Len(ret') >= i
                                  /\ ret'[i][f] = bucket[i][2][f]]_vars

\* Two accepted rows of one document carried different non-empty Doc Type
\* texts, then one with an empty Doc Type; the record holds the first.
C2_Witness ==
    /\ pc = "return"
    /\ Len(scanned) = 3
    /\ LET L == AcceptedLocals(scanned, min_doc_date)
       IN  /\ Len(L) = 3
           /\ \A i \in 1..3 : L[i].doc_number = DocD1
           /\ L[1].doc_type = <<"W", "D">>
           /\ L[2].doc_type = <<"D", "T">>
           /\ L[3].doc_type = <<>>
           /\ ret[1]["Doc Type"] = PyStr(<<"W", "D">>)

\* The first non-empty value the rows supply for a field; the first row's
\* value when all are empty.
RECURSIVE FirstNonEmpty(_, _)
FirstNonEmpty(locals, f) ==
    IF Len(locals) = 1 \/ Truthy(Supplied(Head(locals), f))
    THEN Supplied(Head(locals), f)
    ELSE FirstNonEmpty(Tail(locals), f)

\* The returned records hold, in each of `fields`, the first non-empty
\* value among their document's accepted rows, and an empty value when
\* there is none.
FirstNonEmptyWins(fields) ==
    pc = "return" =>
        \A i \in 1..Len(ret) : \A f \in fields :
            LET mine == RowsOfDoc(AcceptedLocals(scanned, min_doc_date),
                                  ret[i]["Doc Number"])
                want == FirstNonEmpty(mine, f)
            IN  IF Truthy(want) THEN ret[i][f] = want ELSE ~Truthy(ret[i][f])

\* C3: at the end of a pass every non-party field, Consideration included,
\* equals the first non-empty value among the document's accepted rows.
C3_FirstNonEmptyAllFields == FirstNonEmptyWins(NonPartyFields)

\* The same without Consideration, the one field lines 332-343 leave out.
FirstNonEmptyMergedFields == FirstNonEmptyWins(NonPartyFields \ {"Consideration"})

\* The party strings of a document: party text then additional-party text
\* of each accepted row, trimmed, the empty ones dropped, each once.
RECURSIVE Mentions(_)
Mentions(locals) ==
    IF locals = <<>> THEN <<>>
    ELSE <<Strip(Head(locals).party_text), Strip(Head(locals).addl_party_text)>>
         \o Mentions(Tail(locals))

PartyList(locals) == Distinct(SelectSeq(Mentions(locals), LAMBDA p : p # <<>>))

PartyKeys(n) == {"Party" \o ToString(i) : i \in 1..n}

FixedKeys == NonPartyFields \cup {"id", "Doc Number", "Pages"}

\* C4: Party1..PartyN of every returned record are the first N party
\* strings of its document, the remaining slots empty, and the record has
\* no other Party key.
C4_PartySlots ==
    pc = "return" =>
        \A i \in 1..Len(ret) :
            \A plist \in {PartyList(RowsOfDoc(AcceptedLocals(scanned, min_doc_date),
                                               ret[i]["Doc Number"]))} :
                /\ DOMAIN ret[i] \ FixedKeys = PartyKeys(args.max_parties)
                /\ \A k \in 1..args.max_parties :
                      ret[i]["Party" \o ToString(k)] =
                          IF k <= Len(plist) THEN plist[k] ELSE <<>>

\* A document has more party strings than slots, one of them mentioned in
\* two rows, and the slots hold the first ones.
C4_Witness ==
    /\ pc = "return"
    /\ args.max_parties = MaxParties
    /\ MaxParties >= 1
    /\ \E i \in 1..Len(ret) :
          LET mine == RowsOfDoc(AcceptedLocals(scanned, min_doc_date),
                                ret[i]["Doc Number"])
          IN  /\ Len(PartyList(mine)) > args.max_parties
              /\ Len(SelectSeq(Mentions(mine), LAMBDA p : p = PartyList(mine)[1])) >= 2
              /\ ret[i]["Party1"] = PartyList(mine)[1]

\* How many days before today a Doc Date cell of the tables is; -1 for the
\* cells that are no date (empty, not a date, a day that does not exist).
AgeOf(text) ==
    LET ages == {k \in 0..4 : Strip(text) \in {DateText(DaysAgo(today, k)),
                                               DateTimeText(DaysAgo(today, k))}}
    IN  IF ages = {} THEN -1 ELSE CHOOSE k \in ages : TRUE

\* C5: a row with fourteen cells and a doc number is applied when days_back
\* <= 0, or its Doc Date is no date, or the date is at most days_back days
\* old; otherwise it leaves bucket, count and per_doc_parties as they were.
C5_DateCutoff ==
    [][(pc = "scan" /\ pc' = "scan") =>
          LET row == scanned'[Len(scanned')]
          IN  (~row.stale /\ Len(row.tds) >= 14 /\ safe_text(row.tds[4]) # <<>>)
              => LET doc == safe_text(row.tds[4])
                     age == AgeOf(safe_text(row.tds[7]))
                 IN  IF args.days_back <= 0 \/ age = -1 \/ age <= args.days_back
                     THEN /\ DictHas(bucket', doc)
                          /\ count' = IF DictHas(bucket, doc) THEN count ELSE count + 1
                     ELSE /\ bucket' = bucket
                          /\ count' = count
                          /\ per_doc_parties' = per_doc_parties]_vars

\* With days_back = 2 on the day after a leap day, a row three days old
\* was dropped and the next row, two days old, made the first record.
C5_Witness ==
    /\ pc = "scan"
    /\ args.days_back = 2
    /\ today = Today2
    /\ Len(scanned) = 2
    /\ \A i \in 1..2 : ~scanned[i].stale /\ Len(scanned[i].tds) >= 14
    /\ safe_text(scanned[1].tds[4]) = DocD1
    /\ AgeOf(safe_text(scanned[1].tds[7])) = 3
    /\ AgeOf(safe_text(scanned[2].tds[7])) = 2
    /\ count = 1
    /\ bucket[1][2]["Doc Date"] = PyStr(DateText([y |-> 2024, m |-> 2, d |-> 28]))

DocsOf(recs) == {recs[i]["Doc Number"] : i \in 1..Len(recs)}

\* C6: a merge puts the incoming record in place of every base record of
\* the same doc number, keeps the other base records where they were and
\* appends the new doc numbers in incoming order; and the list that reaches
\* the export holds, for every doc number, the record of the latest pass
\* that contained it.
C6_MergeReplaces ==
    [][/\ pc = "merge" =>
            /\ Len(records') = Len(records)
                   + Len(SelectSeq(more, LAMBDA r :
                                      r["Doc Number"] \notin DocsOf(records)))
            /\ \A i \in 1..Len(records) :
                  IF records[i]["Doc Number"] \in DocsOf(more)
                  THEN \E j \in 1..Len(more) :
                          /\ more[j]["Doc Number"] = records[i]["Doc Number"]
                          /\ records'[i] = more[j]
                  ELSE records'[i] = records[i]
            /\ SubSeq(records', Len(records) + 1, Len(records'))
                   = SelectSeq(more, LAMBDA r :
                                  r["Doc Number"] \notin DocsOf(records))
       /\ pc' = "save" => Range(records') = lastSeen']_vars

\* After a rescrape the list holds three documents: the first was replaced
\* by the second record of the rescrape pass, the second is the first
\* pass's second record, the third was appended.
C6_Witness ==
    /\ pc = "save"
    /\ passNo = 1
    /\ Len(records) = 3
    /\ records[1]["id"] = CountySlug \o "-2"
    /\ records[2]["id"] = CountySlug \o "-2"
    /\ records[3]["id"] = CountySlug \o "-1"

\* The effects that follow the last write of the flow log.
AfterFlowLog ==
    LET at == {i \in 1..Len(effects) : effects[i] = "write_flow_log"}
    IN  SubSeq(effects, (CHOOSE i \in at : \A j \in at : j <= i) + 1, Len(effects))

FlowLogAttempts ==
    Cardinality({i \in 1..Len(effects) : effects[i] = "write_flow_log"})

\* write_flow_log's own line, logged when its write raises.
OwnFailureLine == IF flowFile.written THEN <<>> ELSE <<"log">>

DocsInOrder(locals) ==
    Distinct([i \in 1..Len(locals) |-> locals[i].doc_number])

\* C8: a pass returns its records in the order in which their doc numbers
\* first occur among the accepted rows, the k-th with id <slug>-k; count
\* ends as the number of documents, whatever rows were skipped.
C8_OrderAndIds ==
    pc = "return" =>
        \A docs \in {DocsInOrder(AcceptedLocals(scanned, min_doc_date))} :
            /\ count = Len(docs)
            /\ Len(ret) = Len(docs)
            /\ \A k \in 1..Len(docs) :
                  /\ ret[k]["Doc Number"] = docs[k]
                  /\ ret[k]["id"] = args.county_slug \o "-" \o ToString(k)

\* A skipped row, then D2, then D1: the pass returns D2 first.
C8_Witness ==
    /\ pc = "return"
    /\ Len(scanned) = 3
    /\ ~Accepted(scanned[1], min_doc_date)
    /\ Len(ret) = 2
    /\ ret[1]["Doc Number"] = DocD2
    /\ ret[1]["id"] = CountySlug \o "-1"
    /\ ret[2]["Doc Number"] = DocD1

\* C9: a later row changes a record's Pages only when the stored value is
\* a string (empty or not) and the row's pages text is non-empty, to the
\* integer the text parses to or else to the text; a stored integer stays.
C9_PagesRule ==
    [][(pc = "scan" /\ pc' = "scan") =>
          \A i \in 1..Len(bucket) :
             LET old == bucket[i][2]["Pages"]
                 new == bucket'[i][2]["Pages"]
                 row == scanned'[Len(scanned')]
             IN  /\ old.kind = "int" => new = old
                 /\ new # old =>
                       /\ old.kind = "str"
                       /\ Accepted(row, min_doc_date)
                       /\ RowLocals(row.tds).doc_number = bucket[i][1]
                       /\ RowLocals(row.tds).pages # <<>>
                       /\ new = CoercePages(RowLocals(row.tds).pages)]_vars

\* The same with the integer 0 counted as empty, as line 344 does.
PagesRuleZeroEmpty ==
    [][(pc = "scan" /\ pc' = "scan") =>
          \A i \in 1..Len(bucket) :
             LET old == bucket[i][2]["Pages"]
                 new == bucket'[i][2]["Pages"]
                 row == scanned'[Len(scanned')]
             IN  /\ (old.kind = "int" /\ old.n # 0) => new = old
                 /\ new # old =>
                       /\ old.kind = "str" \/ old = PyInt(0)
                       /\ Accepted(row, min_doc_date)
                       /\ RowLocals(row.tds).doc_number = bucket[i][1]
                       /\ RowLocals(row.tds).pages # <<>>
                       /\ new = CoercePages(RowLocals(row.tds).pages)]_vars

UniqueIdsPerPass == NoTwoShare(ret, "id")

=============================================================================
